---- MODULE Spec2Model ----
(***************************************************************************)
(* Model of the LRU cache of lru.go: a container/list recency list, a map  *)
(* index from key to list element, an optional eviction callback, and the  *)
(* sync.RWMutex that guards them.  Every thread runs one operation at a    *)
(* time; an operation is cut into steps at its lock operations and at the  *)
(* points the claims talk about (insert, evict, callback).                 *)
(***************************************************************************)
EXTENDS Integers, Sequences, FiniteSets, TLC

(* ------------------------------ bounds --------------------------------- *)
NumThreads == 2
MaxKey == 3
MaxVal == 2
MaxCap == 2
NumObs == 1

Threads == 1 .. NumThreads
Keys == 1 .. MaxKey
Vals == 1 .. MaxVal
CapInputs == -1 .. MaxCap
Observers == 1 .. NumObs
\* list elements: at most cap live ones when a Put allocates, plus one stale
\* element per other thread that is inside Get
Elems == 1 .. (MaxCap + NumThreads)

None == 0

VARIABLES
    cache,      \* "nil" before a successful NewLRU, "ok" afterwards
    err,        \* TRUE iff the last NewLRU call returned an error
    called,     \* TRUE iff NewLRU has been called
    capacity,   \* argument of the last NewLRU call
    cap,        \* c.cap
    list,       \* c.list: the sequence of elements, front first
    elem,       \* the list elements: key, val of the entry, and e.list == l
    idx,        \* c.idx: key -> element, None when absent
    onEvict,    \* c.onEvict: None (nil) or an observer
    mu,         \* c.mu: w = thread holding Lock (None if free), r = threads holding RLock
    pc,         \* position of each thread
    key,        \* argument key of the running Get/Put
    val,        \* argument val of the running Put
    fn,         \* argument fn of the running SetEvictionCallback
    el,         \* local el of Get/Put
    ok,         \* local ok of Get/Put: the key was found in the index
    tail,       \* local tail of Put
    ret,        \* value returned by the running operation: <<v, found>> or <<n>>
    abs,        \* history: key -> value of its last Put, None once evicted
    order,      \* history: resident keys by last access (Put or Get hit), latest first
    evicted,    \* history: the <<key, value>> pairs removed by the Put in progress
    cbLog,      \* history: the observer calls made by the Put in progress
    wq,         \* auxiliary: the threads whose pending Lock has been announced to c.mu
    everPut,    \* auxiliary: the keys that have been Put
    lastLen,    \* auxiliary: the largest value Len has returned
    lin         \* auxiliary: the sequential executions that explain the returns so far

cons == <<cache, err, called, capacity, cap>>
data == <<list, elem, idx>>
locals == <<key, val, fn, el, ok, tail, ret>>
hist == <<abs, order, evicted, cbLog>>
\* the auxiliary variables change only in the specifications of the claims
\* that use them
aux == <<wq, everPut, lastLen, lin>>
vars == <<cache, err, called, capacity, cap, list, elem, idx, onEvict, mu, pc,
          key, val, fn, el, ok, tail, ret, abs, order, evicted, cbLog,
          wq, everPut, lastLen, lin>>

(* ------------------------- container/list ------------------------------ *)
Blank == [key |-> None, val |-> None, lst |-> FALSE]

Without(l, e) == SelectSeq(l, LAMBDA x : x # e)

\* l.Len()
ListLen(l) == Len(l)

\* l.Back()
Back(l) == IF l = <<>> THEN None ELSE l[Len(l)]

\* l.Front()
Front(l) == IF l = <<>> THEN None ELSE l[1]

\* l.PushFront(v): the order after inserting the new element e
PushFront(l, e) == <<e>> \o l

\* mutants of MoveToFront: one that never moves, one that omits the e.list check
MoveToFront_Noop(l, elems, e) == l
MoveToFront_NoCheck(l, elems, e) ==
    IF Front(l) = e THEN l ELSE <<e>> \o Without(l, e)

\* l.MoveToFront(e): a no-op when e is not an element of l or is the front
MoveToFront(l, elems, e) ==
    IF ~elems[e].lst \/ Front(l) = e THEN l ELSE <<e>> \o Without(l, e)

\* mutant of Remove: the element stays linked
Remove_Noop(l, elems, e) == l

\* l.Remove(e): the order after unlinking e (e.list is cleared by the caller)
Remove(l, elems, e) == IF elems[e].lst THEN Without(l, e) ELSE l

\* the keys, and the sequence of keys, held by the elements of l
KeysIn(l, elems) == {elems[l[i]].key : i \in 1 .. Len(l)}
KeySeq(l, elems) == [i \in 1 .. Len(l) |-> elems[l[i]].key]

\* a fresh element: one that is in no list and that no thread refers to
Referenced(e) == \E t \in Threads : el[t] = e \/ tail[t] = e
NewElem == CHOOSE e \in Elems :
               /\ ~elem[e].lst /\ ~Referenced(e)
               /\ \A f \in Elems : (~elem[f].lst /\ ~Referenced(f)) => e <= f

\* the elements after thread t drops its references: an unlinked element
\* nobody refers to any more is garbage
Dropped(t) ==
    [e \in Elems |->
        IF /\ ~elem[e].lst
           /\ \A u \in Threads \ {t} : el[u] # e /\ tail[u] # e
        THEN Blank ELSE elem[e]]

(* ---------------------------- sync.RWMutex ----------------------------- *)
\* mutant of CanRLock: readers do not wait for the writer
CanRLock_Always == TRUE

CanLock == mu.w = None /\ mu.r = {}
CanRLock == mu.w = None
Lock(t) == [mu EXCEPT !.w = t]
Unlock(t) == [mu EXCEPT !.w = None]
RLock(t) == [mu EXCEPT !.r = @ \cup {t}]
RUnlock(t) == [mu EXCEPT !.r = @ \ {t}]

(* ------------------------------- Init ---------------------------------- *)
\* before any call: the empty cache without observer, no call linearized
LinInit ==
    [cfgs |-> {[seq |-> <<>>, obs |-> None,
                res |-> [t \in Threads |-> [done |-> FALSE, r |-> <<>>]]]},
     ret |-> {}]

Init ==
    /\ cache = "nil" /\ err = FALSE /\ called = FALSE /\ capacity = 0 /\ cap = 0
    /\ list = <<>>
    /\ elem = [e \in Elems |-> Blank]
    /\ idx = [k \in Keys |-> None]
    /\ onEvict = None
    /\ mu = [w |-> None, r |-> {}]
    /\ pc = [t \in Threads |-> "idle"]
    /\ key = [t \in Threads |-> None]
    /\ val = [t \in Threads |-> None]
    /\ fn = [t \in Threads |-> None]
    /\ el = [t \in Threads |-> None]
    /\ ok = [t \in Threads |-> FALSE]
    /\ tail = [t \in Threads |-> None]
    /\ ret = [t \in Threads |-> <<>>]
    /\ abs = [k \in Keys |-> None]
    /\ order = <<>>
    /\ evicted = {}
    /\ cbLog = <<>>
    /\ wq = {}
    /\ everPut = {}
    /\ lastLen = 0
    /\ lin = LinInit

\* mutant of NewLRU: capacity 0 is accepted
NewLRU_ZeroOk(c) ==
    /\ cache = "nil"
    /\ called' = TRUE
    /\ capacity' = c
    /\ IF c < 0
       THEN /\ err' = TRUE
            /\ UNCHANGED <<cache, cap, list, idx>>
       ELSE /\ err' = FALSE
            /\ cache' = "ok"
            /\ cap' = c
            /\ list' = <<>>
            /\ idx' = [k \in Keys |-> None]
    /\ UNCHANGED <<aux, elem, onEvict, mu, pc, locals, hist>>

(* ------------------------------ NewLRU --------------------------------- *)
NewLRU(c) ==
    /\ cache = "nil"
    /\ called' = TRUE
    /\ capacity' = c
    /\ IF c <= 0
       THEN /\ err' = TRUE
            /\ UNCHANGED <<cache, cap, list, idx>>
       ELSE /\ err' = FALSE
            /\ cache' = "ok"
            /\ cap' = c
            /\ list' = <<>>
            /\ idx' = [k \in Keys |-> None]
    /\ UNCHANGED <<aux, elem, onEvict, mu, pc, locals, hist>>

(* -------------------------------- Get ---------------------------------- *)
\* c.mu.RLock()
GetRLock(t, k) ==
    /\ cache = "ok" /\ pc[t] = "idle"
    /\ CanRLock
    /\ mu' = RLock(t)
    /\ key' = [key EXCEPT ![t] = k]
    /\ pc' = [pc EXCEPT ![t] = "get_lookup"]
    /\ UNCHANGED <<aux, cons, data, onEvict, val, fn, el, ok, tail, ret, hist>>

\* el, ok := c.idx[key]; on a miss return zero, false; on a hit c.mu.RUnlock()
GetLookup(t) ==
    /\ pc[t] = "get_lookup"
    /\ ok' = [ok EXCEPT ![t] = idx[key[t]] # None]
    /\ IF idx[key[t]] = None
       THEN /\ ret' = [ret EXCEPT ![t] = <<None, FALSE>>]
            /\ pc' = [pc EXCEPT ![t] = "get_ret"]
            /\ UNCHANGED <<el, mu, order>>
       ELSE /\ el' = [el EXCEPT ![t] = idx[key[t]]]
            /\ mu' = RUnlock(t)
            /\ order' = <<key[t]>> \o Without(order, key[t])
            /\ pc' = [pc EXCEPT ![t] = "get_lock"]
            /\ UNCHANGED ret
    /\ UNCHANGED <<aux, cons, data, onEvict, key, val, fn, tail, abs, evicted, cbLog>>

\* c.mu.Lock()
GetLock(t) ==
    /\ pc[t] = "get_lock"
    /\ CanLock
    /\ mu' = Lock(t)
    /\ pc' = [pc EXCEPT ![t] = "get_move"]
    /\ UNCHANGED <<aux, cons, data, onEvict, locals, hist>>

\* c.list.MoveToFront(el)
GetMove(t) ==
    /\ pc[t] = "get_move"
    /\ list' = MoveToFront(list, elem, el[t])
    /\ pc' = [pc EXCEPT ![t] = "get_unlock"]
    /\ UNCHANGED <<aux, cons, elem, idx, onEvict, mu, locals, hist>>

\* mutant of GetUnlock: the exclusive lock is not released
GetUnlock_Forget(t) ==
    /\ pc[t] = "get_unlock"
    /\ pc' = [pc EXCEPT ![t] = "get_rlock"]
    /\ UNCHANGED <<aux, cons, data, onEvict, mu, locals, hist>>

\* c.mu.Unlock()
GetUnlock(t) ==
    /\ pc[t] = "get_unlock"
    /\ mu' = Unlock(t)
    /\ pc' = [pc EXCEPT ![t] = "get_rlock"]
    /\ UNCHANGED <<aux, cons, data, onEvict, locals, hist>>

\* mutant of GetRLock2: the shared lock is not taken again
GetRLock2_Skip(t) ==
    /\ pc[t] = "get_rlock"
    /\ CanRLock
    /\ pc' = [pc EXCEPT ![t] = "get_read"]
    /\ UNCHANGED <<aux, cons, data, onEvict, mu, locals, hist>>

\* c.mu.RLock() before the return expression
GetRLock2(t) ==
    /\ pc[t] = "get_rlock"
    /\ CanRLock
    /\ mu' = RLock(t)
    /\ pc' = [pc EXCEPT ![t] = "get_read"]
    /\ UNCHANGED <<aux, cons, data, onEvict, locals, hist>>

\* the return expression el.Value.(*entry[K, V]).val, true
GetRead(t) ==
    /\ pc[t] = "get_read"
    /\ ret' = [ret EXCEPT ![t] = <<elem[el[t]].val, TRUE>>]
    /\ pc' = [pc EXCEPT ![t] = "get_ret"]
    /\ UNCHANGED <<aux, cons, data, onEvict, mu, key, val, fn, el, ok, tail, hist>>

\* the deferred c.mu.RUnlock() and the return
GetReturn(t) ==
    /\ pc[t] = "get_ret"
    /\ mu' = RUnlock(t)
    /\ elem' = Dropped(t)
    /\ el' = [el EXCEPT ![t] = None]
    /\ ok' = [ok EXCEPT ![t] = FALSE]
    /\ key' = [key EXCEPT ![t] = None]
    /\ ret' = [ret EXCEPT ![t] = <<>>]
    /\ pc' = [pc EXCEPT ![t] = "idle"]
    /\ UNCHANGED <<aux, cons, list, idx, onEvict, val, fn, tail, hist>>

(* -------------------------------- Put ---------------------------------- *)
\* mutant of Exceeds: eviction already when the capacity is reached
Exceeds_Eq(l, c) == ListLen(l) >= c

\* mutant of Exceeds: the comparison is off by one
Exceeds_Off(l, c) == ListLen(l) > c + 1

\* line 68: c.list.Len() > c.cap
Exceeds(l, c) == ListLen(l) > c

\* mutant of Victim: the front element is evicted
Victim_Front(l) == Front(l)

\* line 69: tail := c.list.Back()
Victim(l) == Back(l)

\* mutant of Delete: the index entry is kept
Delete_Keep(m, kv) == m

\* lines 72-73: kv := tail.Value; delete(c.idx, kv.key)
Delete(m, kv) == [m EXCEPT ![kv.key] = None]

\* mutant of Notify: the observer is called twice
Notify_Twice(log, f, kv) ==
    IF f # None THEN log \o << <<f, kv.key, kv.val>>, <<f, kv.key, kv.val>> >> ELSE log

\* lines 74-76: the call c.onEvict(kv.key, kv.val), made only when c.onEvict != nil
Notify(log, f, kv) ==
    IF f # None THEN Append(log, <<f, kv.key, kv.val>>) ELSE log

\* c.mu.Lock()
PutLock(t, k, v) ==
    /\ cache = "ok" /\ pc[t] = "idle"
    /\ CanLock
    /\ mu' = Lock(t)
    /\ key' = [key EXCEPT ![t] = k]
    /\ val' = [val EXCEPT ![t] = v]
    /\ pc' = [pc EXCEPT ![t] = "put_lookup"]
    /\ UNCHANGED <<aux, cons, data, onEvict, fn, el, ok, tail, ret, hist>>

\* lines 61-67: on a hit store val, MoveToFront and return; on a miss PushFront
\* a new element and register it in the index
PutLookup(t) ==
    /\ pc[t] = "put_lookup"
    /\ ok' = [ok EXCEPT ![t] = idx[key[t]] # None]
    /\ IF idx[key[t]] # None
       THEN LET e == idx[key[t]] IN
            /\ el' = [el EXCEPT ![t] = e]
            /\ elem' = [elem EXCEPT ![e].val = val[t]]
            /\ list' = MoveToFront(list, elem, e)
            /\ idx' = idx
            /\ pc' = [pc EXCEPT ![t] = "put_ret"]
       ELSE LET e == NewElem IN
            /\ el' = [el EXCEPT ![t] = e]
            /\ elem' = [elem EXCEPT ![e] = [key |-> key[t], val |-> val[t], lst |-> TRUE]]
            /\ list' = PushFront(list, e)
            /\ idx' = [idx EXCEPT ![key[t]] = e]
            /\ pc' = [pc EXCEPT ![t] = "put_check"]
    /\ abs' = [abs EXCEPT ![key[t]] = val[t]]
    /\ order' = <<key[t]>> \o Without(order, key[t])
    /\ UNCHANGED <<aux, cons, onEvict, mu, key, val, fn, tail, ret, evicted, cbLog>>

\* lines 68-73: when the list is over capacity unlink the back element and
\* delete its key from the index
PutEvict(t) ==
    /\ pc[t] = "put_check"
    /\ IF Exceeds(list, cap) /\ Victim(list) # None
       THEN LET tl == Victim(list)
                newList == Remove(list, elem, tl)
                gone == KeysIn(list, elem) \ KeysIn(newList, elem)
            IN
            /\ tail' = [tail EXCEPT ![t] = tl]
            /\ list' = newList
            /\ elem' = [elem EXCEPT ![tl].lst = FALSE]
            /\ idx' = Delete(idx, elem[tl])
            /\ evicted' = {<<k, abs[k]>> : k \in gone}
            /\ abs' = [k \in Keys |-> IF k \in gone THEN None ELSE abs[k]]
            /\ order' = SelectSeq(order, LAMBDA k : k \notin gone)
            /\ pc' = [pc EXCEPT ![t] = "put_cb"]
       ELSE /\ pc' = [pc EXCEPT ![t] = "put_ret"]
            /\ UNCHANGED <<data, tail, abs, order, evicted>>
    /\ UNCHANGED <<aux, cons, onEvict, mu, key, val, fn, el, ok, ret, cbLog>>

\* lines 74-76: if c.onEvict != nil { c.onEvict(kv.key, kv.val) }
PutCallback(t) ==
    /\ pc[t] = "put_cb"
    /\ cbLog' = Notify(cbLog, onEvict, elem[tail[t]])
    /\ pc' = [pc EXCEPT ![t] = "put_ret"]
    /\ UNCHANGED <<aux, cons, data, onEvict, mu, locals, abs, order, evicted>>

\* the deferred c.mu.Unlock() and the return
PutReturn(t) ==
    /\ pc[t] = "put_ret"
    /\ mu' = Unlock(t)
    /\ elem' = Dropped(t)
    /\ el' = [el EXCEPT ![t] = None]
    /\ ok' = [ok EXCEPT ![t] = FALSE]
    /\ tail' = [tail EXCEPT ![t] = None]
    /\ key' = [key EXCEPT ![t] = None]
    /\ val' = [val EXCEPT ![t] = None]
    /\ evicted' = {}
    /\ cbLog' = <<>>
    /\ pc' = [pc EXCEPT ![t] = "idle"]
    /\ UNCHANGED <<aux, cons, list, idx, onEvict, fn, ret, abs, order>>

(* -------------------------------- Len ---------------------------------- *)
\* c.mu.RLock()
LenRLock(t) ==
    /\ cache = "ok" /\ pc[t] = "idle"
    /\ CanRLock
    /\ mu' = RLock(t)
    /\ pc' = [pc EXCEPT ![t] = "len_read"]
    /\ UNCHANGED <<aux, cons, data, onEvict, locals, hist>>

\* mutant of LenRead: the capacity is returned
LenRead_Cap(t) ==
    /\ pc[t] = "len_read"
    /\ ret' = [ret EXCEPT ![t] = <<cap>>]
    /\ pc' = [pc EXCEPT ![t] = "len_ret"]
    /\ UNCHANGED <<aux, cons, data, onEvict, mu, key, val, fn, el, ok, tail, hist>>

\* return c.list.Len()
LenRead(t) ==
    /\ pc[t] = "len_read"
    /\ ret' = [ret EXCEPT ![t] = <<ListLen(list)>>]
    /\ pc' = [pc EXCEPT ![t] = "len_ret"]
    /\ UNCHANGED <<aux, cons, data, onEvict, mu, key, val, fn, el, ok, tail, hist>>

\* the deferred c.mu.RUnlock() and the return
LenReturn(t) ==
    /\ pc[t] = "len_ret"
    /\ mu' = RUnlock(t)
    /\ ret' = [ret EXCEPT ![t] = <<>>]
    /\ pc' = [pc EXCEPT ![t] = "idle"]
    /\ UNCHANGED <<aux, cons, data, onEvict, key, val, fn, el, ok, tail, hist>>

(* ------------------------ SetEvictionCallback -------------------------- *)
\* c.mu.Lock()
SetLock(t, f) ==
    /\ cache = "ok" /\ pc[t] = "idle"
    /\ CanLock
    /\ mu' = Lock(t)
    /\ fn' = [fn EXCEPT ![t] = f]
    /\ pc' = [pc EXCEPT ![t] = "set_assign"]
    /\ UNCHANGED <<aux, cons, data, onEvict, key, val, el, ok, tail, ret, hist>>

\* mutant of SetAssign: the observer field keeps its old value
SetAssign_Drop(t) ==
    /\ pc[t] = "set_assign"
    /\ pc' = [pc EXCEPT ![t] = "set_ret"]
    /\ UNCHANGED <<aux, cons, data, onEvict, mu, locals, hist>>

\* c.onEvict = fn
SetAssign(t) ==
    /\ pc[t] = "set_assign"
    /\ onEvict' = fn[t]
    /\ pc' = [pc EXCEPT ![t] = "set_ret"]
    /\ UNCHANGED <<aux, cons, data, mu, locals, hist>>

\* the deferred c.mu.Unlock() and the return
SetReturn(t) ==
    /\ pc[t] = "set_ret"
    /\ mu' = Unlock(t)
    /\ fn' = [fn EXCEPT ![t] = None]
    /\ pc' = [pc EXCEPT ![t] = "idle"]
    /\ UNCHANGED <<aux, cons, data, onEvict, key, val, el, ok, tail, ret, hist>>

(* --------------------------- specifications ---------------------------- *)
\* the positions inside Put and inside Get
InPut(t) == pc[t] \in {"put_lookup", "put_check", "put_cb", "put_ret"}
GetPcs == {"get_lookup", "get_lock", "get_move", "get_unlock", "get_rlock",
           "get_read", "get_ret"}

Step(t) ==
    \/ \E k \in Keys : GetRLock(t, k)
    \/ GetLookup(t)
    \/ GetLock(t)
    \/ GetMove(t)
    \/ GetUnlock(t)
    \/ GetRLock2(t)
    \/ GetRead(t)
    \/ GetReturn(t)
    \/ \E k \in Keys, v \in Vals : PutLock(t, k, v)
    \/ PutLookup(t)
    \/ PutEvict(t)
    \/ PutCallback(t)
    \/ PutReturn(t)
    \/ LenRLock(t)
    \/ LenRead(t)
    \/ LenReturn(t)
    \/ \E f \in Observers \cup {None} : SetLock(t, f)
    \/ SetAssign(t)
    \/ SetReturn(t)

Construct == \E c \in CapInputs : NewLRU(c)

Next == Construct \/ \E t \in Threads : Step(t)

Spec == Init /\ [][Next]_vars

\* sequential execution: a thread takes steps only while every other thread is idle
Alone(t) == \A u \in Threads \ {t} : pc[u] = "idle"

SeqNext ==
    \/ Construct
    \/ \E t \in Threads :
        \/ Alone(t) /\ \E k \in Keys : GetRLock(t, k)
        \/ Alone(t) /\ GetLookup(t)
        \/ Alone(t) /\ GetLock(t)
        \/ Alone(t) /\ GetMove(t)
        \/ Alone(t) /\ GetUnlock(t)
        \/ Alone(t) /\ GetRLock2(t)
        \/ Alone(t) /\ GetRead(t)
        \/ Alone(t) /\ GetReturn(t)
        \/ Alone(t) /\ \E k \in Keys, v \in Vals : PutLock(t, k, v)
        \/ Alone(t) /\ PutLookup(t)
        \/ Alone(t) /\ PutEvict(t)
        \/ Alone(t) /\ PutCallback(t)
        \/ Alone(t) /\ PutReturn(t)
        \/ Alone(t) /\ LenRLock(t)
        \/ Alone(t) /\ LenRead(t)
        \/ Alone(t) /\ LenReturn(t)
        \/ Alone(t) /\ \E f \in Observers \cup {None} : SetLock(t, f)
        \/ Alone(t) /\ SetAssign(t)
        \/ Alone(t) /\ SetReturn(t)

SeqSpec == Init /\ [][SeqNext]_vars

\* two distinct observers can be registered, so that a replacement of one
\* observer by another is visible in the observer calls
ObsObservers == 1 .. (NumObs + 1)

ObsStep(t) ==
    \/ \E k \in Keys : GetRLock(t, k)
    \/ GetLookup(t)
    \/ GetLock(t)
    \/ GetMove(t)
    \/ GetUnlock(t)
    \/ GetRLock2(t)
    \/ GetRead(t)
    \/ GetReturn(t)
    \/ \E k \in Keys : PutLock(t, k, 1)
    \/ PutLookup(t)
    \/ PutEvict(t)
    \/ PutCallback(t)
    \/ PutReturn(t)
    \/ \E f \in ObsObservers \cup {None} : SetLock(t, f)
    \/ SetAssign(t)
    \/ SetReturn(t)

ObsNext == Construct \/ \E t \in Threads : ObsStep(t)

ObsSpec == Init /\ [][ObsNext]_vars

(* ------------------------ re-entrant observer -------------------------- *)
\* an observer that calls a method of the same cache
ReentObs == NumObs + 2

\* mutant of ObserverEnter: the observer is called after the lock is released
ObserverEnter_Unlocked(t) ==
    /\ pc[t] = "put_cb" /\ onEvict = ReentObs
    /\ mu' = Unlock(t)
    /\ pc' = [pc EXCEPT ![t] = "cb_call"]
    /\ UNCHANGED <<aux, cons, data, onEvict, locals, hist>>

\* lines 74-76: c.onEvict(kv.key, kv.val) enters the observer, which is about
\* to call a method of the cache
ObserverEnter(t) ==
    /\ pc[t] = "put_cb" /\ onEvict = ReentObs
    /\ cbLog' = Notify(cbLog, onEvict, elem[tail[t]])
    /\ pc' = [pc EXCEPT ![t] = "cb_call"]
    /\ UNCHANGED <<aux, cons, data, onEvict, mu, locals, abs, order, evicted>>

\* the observer calls Get or Len: c.mu.RLock()
ObserverRLock(t) ==
    /\ pc[t] = "cb_call"
    /\ CanRLock
    /\ mu' = RLock(t)
    /\ pc' = [pc EXCEPT ![t] = "cb_in"]
    /\ UNCHANGED <<aux, cons, data, onEvict, locals, hist>>

\* the observer calls Put or SetEvictionCallback: c.mu.Lock()
ObserverLock(t) ==
    /\ pc[t] = "cb_call"
    /\ CanLock
    /\ mu' = Lock(t)
    /\ pc' = [pc EXCEPT ![t] = "cb_in"]
    /\ UNCHANGED <<aux, cons, data, onEvict, locals, hist>>

ReentStep(t) ==
    \/ \E k \in Keys : GetRLock(t, k)
    \/ GetLookup(t)
    \/ GetLock(t)
    \/ GetMove(t)
    \/ GetUnlock(t)
    \/ GetRLock2(t)
    \/ GetRead(t)
    \/ GetReturn(t)
    \/ \E k \in Keys : PutLock(t, k, 1)
    \/ PutLookup(t)
    \/ PutEvict(t)
    \/ onEvict # ReentObs /\ PutCallback(t)
    \/ ObserverEnter(t)
    \/ PutReturn(t)
    \/ LenRLock(t)
    \/ LenRead(t)
    \/ LenReturn(t)
    \/ \E f \in {None, ReentObs} : SetLock(t, f)
    \/ SetAssign(t)
    \/ SetReturn(t)

ReentNext == Construct \/ \E t \in Threads : ReentStep(t)

ReentSpec == Init /\ [][ReentNext]_vars

(* ----------------------- history of Put and Len ------------------------ *)
\* line 58: Put has been called with key[t]
NotePut(t) ==
    /\ pc[t] = "put_lookup" /\ key[t] \notin everPut
    /\ everPut' = everPut \cup {key[t]}
    /\ UNCHANGED <<cons, data, onEvict, mu, pc, locals, hist, wq, lastLen, lin>>

\* line 85: Len returns a value larger than all it has returned before
NoteLen(t) ==
    /\ pc[t] = "len_ret" /\ ret[t][1] > lastLen
    /\ lastLen' = ret[t][1]
    /\ UNCHANGED <<cons, data, onEvict, mu, pc, locals, hist, wq, everPut, lin>>

HistStep(t) ==
    \/ \E k \in Keys : GetRLock(t, k)
    \/ GetLookup(t)
    \/ GetLock(t)
    \/ GetMove(t)
    \/ GetUnlock(t)
    \/ GetRLock2(t)
    \/ GetRead(t)
    \/ GetReturn(t)
    \/ \E k \in Keys : PutLock(t, k, 1)
    \/ NotePut(t)
    \/ key[t] \in everPut /\ PutLookup(t)
    \/ PutEvict(t)
    \/ PutCallback(t)
    \/ PutReturn(t)
    \/ LenRLock(t)
    \/ LenRead(t)
    \/ NoteLen(t)
    \/ pc[t] = "len_ret" /\ ret[t][1] <= lastLen /\ LenReturn(t)

HistNext == Construct \/ \E t \in Threads : HistStep(t)

HistSpec == Init /\ [][HistNext]_vars

(* ------------------------- sequential LRU ------------------------------ *)
\* A sequential execution keeps the resident <<key, value>> pairs, front
\* first, and the observer; res[t] is the result of thread t's call once the
\* execution contains it.
AbsHas(seq, k) == \E i \in 1 .. Len(seq) : seq[i][1] = k
AbsVal(seq, k) == seq[CHOOSE i \in 1 .. Len(seq) : seq[i][1] = k][2]
AbsDrop(seq, k) == SelectSeq(seq, LAMBDA p : p[1] # k)

\* Get (lines 40-54) run as one step: a hit moves the pair to the front
AbsGet(c, t) ==
    IF AbsHas(c.seq, key[t])
    THEN [c EXCEPT !.seq = << <<key[t], AbsVal(c.seq, key[t])>> >> \o AbsDrop(c.seq, key[t]),
                   !.res[t] = [done |-> TRUE, r |-> <<AbsVal(c.seq, key[t]), TRUE>>]]
    ELSE [c EXCEPT !.res[t] = [done |-> TRUE, r |-> <<None, FALSE>>]]

\* Put (lines 58-79) run as one step; its result is the observer calls it makes
AbsPut(c, t) ==
    IF AbsHas(c.seq, key[t])
    THEN [c EXCEPT !.seq = << <<key[t], val[t]>> >> \o AbsDrop(c.seq, key[t]),
                   !.res[t] = [done |-> TRUE, r |-> <<>>]]
    ELSE LET seq1 == << <<key[t], val[t]>> >> \o c.seq IN
         IF Len(seq1) > cap
         THEN LET kv == seq1[Len(seq1)] IN
              [c EXCEPT !.seq = SubSeq(seq1, 1, Len(seq1) - 1),
                        !.res[t] = [done |-> TRUE,
                                    r |-> IF c.obs # None
                                          THEN << <<c.obs, kv[1], kv[2]>> >>
                                          ELSE <<>>]]
         ELSE [c EXCEPT !.seq = seq1, !.res[t] = [done |-> TRUE, r |-> <<>>]]

AbsApply(c, t) == IF InPut(t) THEN AbsPut(c, t) ELSE AbsGet(c, t)

\* thread t is inside a call that the execution c does not contain yet
LinPending(c, t) == pc[t] # "idle" /\ t \notin lin.ret /\ ~c.res[t].done

\* the executions extended by at most one, and by any number, of the pending calls
LinOnce(C) ==
    C \cup UNION {{AbsApply(c, t) : t \in {u \in Threads : LinPending(c, u)}} : c \in C}

RECURSIVE LinClosure(_, _)
LinClosure(C, n) == IF n = 0 THEN C ELSE LinClosure(LinOnce(C), n - 1)

\* what the call of thread t returns to its caller, or tells the observer
Result(t) == IF pc[t] = "get_ret" THEN ret[t] ELSE cbLog

\* the return of thread t's call: the executions that remain are those that
\* contain the call with the result it returns
LinReturn(t) ==
    /\ pc[t] \in {"get_ret", "put_ret"} /\ lin.ret = {}
    /\ lin' = [cfgs |-> {[c EXCEPT !.res[t] = [done |-> FALSE, r |-> <<>>]] :
                            c \in {d \in LinClosure(lin.cfgs, NumThreads) :
                                      d.res[t].done /\ d.res[t].r = Result(t)}},
               ret |-> {t}]
    /\ UNCHANGED <<cons, data, onEvict, mu, pc, locals, hist, wq, everPut, lastLen>>

\* thread t has returned
LinForget(t) ==
    /\ pc[t] = "idle" /\ t \in lin.ret
    /\ lin' = [lin EXCEPT !.ret = {}]
    /\ UNCHANGED <<cons, data, onEvict, mu, pc, locals, hist, wq, everPut, lastLen>>

\* no return is being recorded
Quiet == lin.ret = {}

LinNext ==
    \/ Quiet /\ Construct
    \/ \E t \in Threads :
        \/ Quiet /\ \E k \in Keys : GetRLock(t, k)
        \/ Quiet /\ GetLookup(t)
        \/ Quiet /\ GetLock(t)
        \/ Quiet /\ GetMove(t)
        \/ Quiet /\ GetUnlock(t)
        \/ Quiet /\ GetRLock2(t)
        \/ Quiet /\ GetRead(t)
        \/ t \in lin.ret /\ GetReturn(t)
        \/ Quiet /\ \E k \in Keys : PutLock(t, k, 1)
        \/ Quiet /\ PutLookup(t)
        \/ Quiet /\ PutEvict(t)
        \/ Quiet /\ PutCallback(t)
        \/ t \in lin.ret /\ PutReturn(t)
        \/ LinReturn(t)
        \/ LinForget(t)

LinSpec == Init /\ [][LinNext]_vars

(* ------------------------- fair scheduling ----------------------------- *)
\* sync.RWMutex.Lock announces the writer before it waits for the readers to
\* leave; from then on RLock and Lock of other goroutines wait for it
LockAnnounce(t) ==
    /\ pc[t] = "get_lock" /\ t \notin wq
    /\ wq' = wq \cup {t}
    /\ UNCHANGED <<cons, data, onEvict, mu, pc, locals, hist, everPut, lastLen, lin>>

\* the announcement ends with the acquisition
LockRetire(t) ==
    /\ pc[t] # "get_lock" /\ t \in wq
    /\ wq' = wq \ {t}
    /\ UNCHANGED <<cons, data, onEvict, mu, pc, locals, hist, everPut, lastLen, lin>>

NoWriterWaits == \A u \in Threads : ~(u \in wq /\ pc[u] = "get_lock")

\* enough keys to overflow a cache of capacity MaxCap - 1
LiveKeys == 1 .. MaxCap

\* the calls a thread can issue
Call(t) ==
    \/ NoWriterWaits /\ \E k \in LiveKeys : GetRLock(t, k)
    \/ NoWriterWaits /\ \E k \in LiveKeys : PutLock(t, k, 1)
    \/ NoWriterWaits /\ LenRLock(t)
    \/ NoWriterWaits /\ \E f \in Observers \cup {None} : SetLock(t, f)

\* the steps of a call after its first lock operation
Continue(t) ==
    \/ t \notin wq /\ GetLookup(t)
    \/ LockAnnounce(t)
    \/ t \in wq /\ GetLock(t)
    \/ LockRetire(t)
    \/ GetMove(t)
    \/ GetUnlock(t)
    \/ NoWriterWaits /\ GetRLock2(t)
    \/ GetRead(t)
    \/ GetReturn(t)
    \/ PutLookup(t)
    \/ PutEvict(t)
    \/ PutCallback(t)
    \/ PutReturn(t)
    \/ LenRead(t)
    \/ LenReturn(t)
    \/ SetAssign(t)
    \/ SetReturn(t)

LiveNext == Construct \/ \E t \in Threads : (Call(t) \/ Continue(t))

\* fair scheduling: a thread that can take a step eventually takes it, and a
\* reader that waits gets the lock when it becomes free again and again
\* (Unlock wakes the waiting readers before another writer can lock)
Fair ==
    \A t \in Threads :
        /\ WF_vars(Continue(t))
        /\ SF_vars(NoWriterWaits /\ GetRLock2(t))

LiveSpec == Init /\ [][LiveNext]_vars /\ Fair

(* ------------------------------- claims -------------------------------- *)
Moved(t) == pc'[t] # pc[t]

\* C1: the list never holds more than cap elements while no thread holds the
\* exclusive lock, in particular when a Put is about to return and in every
\* value Len returns; it holds cap + 1 elements at most, and only between the
\* insertion and the eviction of a Put that holds the exclusive lock.
C1_Capacity ==
    /\ ListLen(list) <= cap + 1
    /\ mu.w = None => ListLen(list) <= cap
    /\ ListLen(list) > cap => \E t \in Threads : mu.w = t /\ pc[t] = "put_check"
    /\ \A t \in Threads :
         /\ pc[t] = "put_ret" => ListLen(list) <= cap
         /\ pc[t] = "len_ret" => ret[t][1] <= cap

\* a Put that evicted is about to return from a full cache while another
\* thread is inside Get
C1_Witness ==
    \E t, u \in Threads :
        /\ pc[t] = "put_ret" /\ tail[t] # None /\ ListLen(list) = cap /\ cap = MaxCap
        /\ pc[u] = "get_lock"

\* C2: whenever no thread holds the exclusive lock, the keys of the index are
\* the keys of the list elements, no key is held by two list elements, and
\* every index entry refers to the linked element that holds its key.
C2_Bijection ==
    mu.w = None =>
        /\ \A k \in Keys : idx[k] # None <=> k \in KeysIn(list, elem)
        /\ \A i, j \in 1 .. Len(list) : i # j => elem[list[i]].key # elem[list[j]].key
        /\ \A k \in Keys : idx[k] # None =>
              /\ elem[idx[k]].lst
              /\ elem[idx[k]].key = k
              /\ \E i \in 1 .. Len(list) : list[i] = idx[k]
        /\ \A e \in Elems : elem[e].lst <=> \E i \in 1 .. Len(list) : list[i] = e

\* the lock is free, the cache is full, and a thread inside Get holds an
\* element that a Put of another thread has evicted meanwhile
C2_Witness ==
    /\ mu.w = None /\ ListLen(list) = cap /\ cap = MaxCap
    /\ \E t \in Threads : pc[t] = "get_lock" /\ ~elem[el[t]].lst

\* C3 (sequential execution): the key a Put evicts is the resident key whose
\* last access (Put or Get hit) is the oldest, and between operations the
\* list holds the resident keys in the order of their last access.
C3_LRUVictim ==
    /\ []((\A t \in Threads : pc[t] = "idle") => KeySeq(list, elem) = order)
    /\ [][\A t \in Threads :
            (pc[t] = "put_check" /\ Moved(t)) =>
                IF Len(order) > cap
                THEN /\ pc'[t] = "put_cb"
                     /\ {p[1] : p \in evicted'} = {order[Len(order)]}
                     /\ elem[tail'[t]].key = order[Len(order)]
                ELSE pc'[t] = "put_ret" /\ evicted' = {}]_vars

\* capacity 2: after Put(1), Put(2), a Get hit on 1 and Put(3), key 2 is the victim
C3_Witness ==
    \E t \in Threads :
        /\ pc[t] = "put_cb" /\ cap = 2 /\ key[t] = 3
        /\ elem[tail[t]].key = 2
        /\ KeySeq(list, elem) = <<3, 1>>
        /\ list = <<3, 1>>

\* C4: a Put of a resident key stores the value, makes the key's element the
\* front, keeps the index, the resident keys and the length, and returns
\* without evicting and without calling the observer.
C4_Overwrite ==
    /\ [](\A t \in Threads : (pc[t] = "put_ret" /\ ok[t]) =>
              evicted = {} /\ cbLog = <<>> /\ tail[t] = None)
    /\ [][\A t \in Threads :
            (pc[t] = "put_lookup" /\ Moved(t) /\ idx[key[t]] # None) =>
                /\ pc'[t] = "put_ret"
                /\ idx' = idx
                /\ elem'[idx[key[t]]] = [elem[idx[key[t]]] EXCEPT !.val = val[t]]
                /\ Front(list') = idx[key[t]]
                /\ ListLen(list') = ListLen(list)
                /\ KeysIn(list', elem') = KeysIn(list, elem)
                /\ \A k \in Keys \ {key[t]} :
                      idx[k] # None => elem'[idx[k]] = elem[idx[k]]
                /\ evicted' = {} /\ cbLog' = <<>>]_vars

\* an overwriting Put on a full cache with an observer registered has moved
\* the key from the back to the front and changed its value
C4_Witness ==
    \E t \in Threads :
        /\ pc[t] = "put_ret" /\ ok[t] /\ onEvict # None
        /\ ListLen(list) = cap /\ cap = MaxCap
        /\ list = <<2, 1>> /\ el[t] = 2
        /\ elem[2].val = 2 /\ val[t] = 2

\* C5: NewLRU fails and yields no cache for capacity <= 0; for capacity >= 1
\* it yields, without error, an empty cache of that capacity, and the
\* capacity of a cache never changes.
C5_Construction ==
    /\ [](called =>
            /\ capacity <= 0 => (err /\ cache = "nil")
            /\ capacity >= 1 => (~err /\ cache = "ok" /\ cap = capacity))
    /\ [](~called => cache = "nil")
    /\ [][(cache = "nil" /\ cache' = "ok") =>
            (list' = <<>> /\ \A k \in Keys : idx'[k] = None)]_vars
    /\ [][cache = "ok" => (cache' = "ok" /\ cap' = cap)]_vars

\* NewLRU(0) has returned an error
C5_Witness == called /\ capacity = 0 /\ err /\ cache = "nil"

\* C6: when a Put is about to return, the observer has been called exactly
\* once if the Put evicted and an observer is registered, with the evicted
\* key and the value that key held before the eviction, and not at all
\* otherwise; only the callback step of an evicting Put calls the observer.
C6_Callback ==
    /\ [](\A t \in Threads : pc[t] = "put_ret" =>
              /\ Cardinality(evicted) <= 1
              /\ ok[t] => evicted = {}
              /\ (tail[t] # None) <=> (evicted # {})
              /\ cbLog = IF onEvict = None
                         THEN <<>>
                         ELSE IF evicted = {}
                              THEN <<>>
                              ELSE LET p == CHOOSE q \in evicted : TRUE
                                   IN << <<onEvict, p[1], p[2]>> >>)
    /\ [](cbLog # <<>> => \E t \in Threads : pc[t] = "put_ret" /\ ~ok[t])
    /\ [][cbLog' # cbLog =>
            \E t \in Threads :
                \/ pc[t] = "put_cb" /\ pc'[t] = "put_ret" /\ evicted # {}
                \/ pc[t] = "put_ret" /\ pc'[t] = "idle" /\ cbLog' = <<>>]_vars

\* the observer has been called for an eviction from a cache of capacity 2
\* whose victim had been overwritten with the value 2
C6_Witness ==
    \E t \in Threads :
        /\ pc[t] = "put_ret" /\ cap = MaxCap
        /\ \E k \in Keys : cbLog = << <<onEvict, k, 2>> >> /\ onEvict # None

\* C7: while no thread holds the exclusive lock, a key is in the index (Get
\* finds it) iff it has been Put and not evicted since; Get's lookup decides
\* found by exactly that, the found flag it returns is that decision, and a
\* key leaves the index only in the eviction step of a Put.
C7_Retrievable ==
    /\ [](mu.w = None => \A k \in Keys : (idx[k] # None) <=> (abs[k] # None))
    /\ [][\A t \in Threads :
            (pc[t] = "get_lookup" /\ Moved(t)) =>
                /\ ok'[t] <=> (abs[key[t]] # None)
                /\ ok'[t] <=> pc'[t] = "get_lock"
                /\ ~ok'[t] <=> (pc'[t] = "get_ret" /\ ret'[t] = <<None, FALSE>>)]_vars
    /\ [](\A t \in Threads : pc[t] = "get_ret" => ret[t][2] = ok[t])
    /\ [][\A k \in Keys :
            (idx[k] # None /\ idx'[k] = None) =>
                /\ <<k, abs[k]>> \in evicted'
                /\ \E t \in Threads : pc[t] = "put_check" /\ pc'[t] = "put_cb"]_vars

\* a Get misses key 1 while the cache is full and another thread, inside Get,
\* still holds the element that held key 1 before it was evicted
C7_Witness ==
    \E t, u \in Threads :
        /\ pc[t] = "get_ret" /\ ret[t] = <<None, FALSE>> /\ key[t] = 1
        /\ ListLen(list) = cap /\ cap = MaxCap
        /\ pc[u] = "get_lock" /\ elem[el[u]].key = 1 /\ ~elem[el[u]].lst

\* C8: when the promotion step of a Get that found its key has completed,
\* the key is resident and its element is the front of the list.
C8_HitPromotes ==
    \A t \in Threads :
        pc[t] = "get_unlock" =>
            /\ idx[key[t]] = el[t]
            /\ elem[el[t]].lst
            /\ Front(list) = el[t]

\* C9: when Get returns (v, TRUE) for a key that is resident at the moment of
\* the read, v is the value the index's element for that key stores, which
\* is the value of the last Put of the key.
C9_CurrentValue ==
    \A t \in Threads :
        (pc[t] = "get_ret" /\ ret[t][2] /\ idx[key[t]] # None) =>
            /\ ret[t][1] = elem[idx[key[t]]].val
            /\ ret[t][1] = abs[key[t]]

\* C10: no step of a Get changes the index, the resident keys, the stored
\* values, the length, the observer or the observer's calls; only the
\* promotion step of a Get that found its key changes the list, and it either
\* leaves the order alone or moves the requested key to the front keeping
\* the order of the other keys.
C10_GetFrame ==
    [][\A t \in Threads :
         (Moved(t) /\ (pc[t] \in GetPcs \/ pc'[t] \in GetPcs)) =>
             /\ idx' = idx
             /\ abs' = abs
             /\ onEvict' = onEvict
             /\ cbLog' = cbLog /\ evicted' = evicted
             /\ ListLen(list') = ListLen(list)
             /\ KeysIn(list', elem') = KeysIn(list, elem)
             /\ \A i \in 1 .. Len(list) : elem'[list[i]] = elem[list[i]]
             /\ list' # list =>
                   /\ pc[t] = "get_move" /\ ok[t]
                   /\ elem[el[t]].key = key[t]
                   /\ KeySeq(list', elem') =
                        <<key[t]>> \o Without(KeySeq(list, elem), key[t])
             /\ ~ok'[t] => list' = list]_vars

\* a Get has moved its key's element from the back of a full list to the front
C10_Witness ==
    \E t \in Threads :
        /\ pc[t] = "get_unlock" /\ ok[t]
        /\ cap = MaxCap /\ list = <<2, 1>> /\ el[t] = 2
        /\ order = <<key[t]>> \o <<elem[1].key>>

\* C11: when SetEvictionCallback(fn) is about to return, the registered
\* observer is fn; the observer field changes only in the assignment step of a
\* SetEvictionCallback that holds the exclusive lock, hence never while a Put
\* is between its Lock and its return; every observer call a Put has made
\* when it returns went to the observer registered during that Put (none
\* when it is nil) and reports a pair that this Put evicted; the steps of
\* SetEvictionCallback change neither the list, the index, the elements nor
\* the observer calls.
C11_Replaces ==
    /\ [](\A t \in Threads : pc[t] = "set_ret" => onEvict = fn[t])
    /\ [](\A t \in Threads : pc[t] = "put_ret" =>
              /\ \A i \in 1 .. Len(cbLog) :
                    /\ cbLog[i][1] = onEvict
                    /\ <<cbLog[i][2], cbLog[i][3]>> \in evicted
              /\ onEvict = None => cbLog = <<>>
              /\ (onEvict # None /\ evicted # {}) => Len(cbLog) = 1)
    /\ [][\A t \in Threads : InPut(t) => onEvict' = onEvict]_vars
    /\ [][onEvict' # onEvict =>
            \E t \in Threads :
                /\ pc[t] = "set_assign" /\ pc'[t] = "set_ret"
                /\ mu.w = t /\ onEvict' = fn[t]]_vars
    /\ [][\A t \in Threads :
            (Moved(t) /\ (pc[t] \in {"set_assign", "set_ret"} \/ pc'[t] = "set_assign")) =>
                /\ list' = list /\ idx' = idx /\ elem' = elem
                /\ cbLog' = cbLog /\ evicted' = evicted /\ abs' = abs]_vars

\* the second observer, registered in place of an earlier one, has been told
\* of the eviction of a Put
C11_Witness ==
    \E t \in Threads :
        /\ pc[t] = "put_ret" /\ onEvict = NumObs + 1
        /\ \E k \in Keys : cbLog = << <<NumObs + 1, k, 1>> >>

\* C12: a Put removes no key or exactly one; it removes one exactly when it
\* has inserted an absent key into a list that already held cap elements,
\* and then the element removed is the back of the list, its key the only
\* key that leaves the list and the index; a Put of a resident key and the
\* later steps of a Put remove nothing.
C12_OneEviction ==
    /\ [](\A t \in Threads : pc[t] \in {"put_cb", "put_ret"} =>
              /\ Cardinality(evicted) <= 1
              /\ (evicted # {}) <=> (tail[t] # None))
    /\ [][\A t \in Threads :
            (pc[t] = "put_check" /\ Moved(t)) =>
                IF ListLen(list) - 1 >= cap
                THEN LET k == elem[Back(list)].key IN
                     /\ tail'[t] = Back(list)
                     /\ list = list' \o <<Back(list)>>
                     /\ KeysIn(list, elem) \ KeysIn(list', elem') = {k}
                     /\ idx' = [idx EXCEPT ![k] = None]
                     /\ {p[1] : p \in evicted'} = {k}
                     /\ Cardinality(evicted') = 1
                ELSE list' = list /\ idx' = idx /\ evicted' = {} /\ tail'[t] = None]_vars
    /\ [][\A t \in Threads :
            (pc[t] = "put_lookup" /\ Moved(t)) =>
                /\ KeysIn(list', elem') = KeysIn(list, elem) \cup {key[t]}
                /\ evicted' = {}
                /\ idx[key[t]] # None => pc'[t] = "put_ret"]_vars
    /\ [][\A t \in Threads :
            (pc[t] \in {"put_cb", "put_ret"} /\ Moved(t)) =>
                list' = list /\ idx' = idx]_vars

\* a Put into a full cache of capacity 2 has removed exactly one element and
\* is about to call the observer
C12_Witness ==
    \E t \in Threads :
        /\ pc[t] = "put_cb" /\ cap = MaxCap /\ ListLen(list) = cap
        /\ Cardinality(evicted) = 1 /\ ~elem[tail[t]].lst

\* C13: while a Put is between its Lock and its return it holds the exclusive
\* lock, no thread holds the shared lock, every other thread is idle or
\* waits for the lock inside Get, and no other thread takes a step; so no
\* thread that holds a lock sees cap + 1 elements or the state between the
\* removal of the victim and the observer call.
C13_PutAtomic ==
    /\ [](\A t \in Threads : InPut(t) =>
              /\ mu.w = t /\ mu.r = {}
              /\ \A u \in Threads \ {t} : pc[u] \in {"idle", "get_lock", "get_rlock"})
    /\ [](\A u \in Threads : (u \in mu.r \/ (mu.w = u /\ ~InPut(u))) =>
              /\ ListLen(list) <= cap
              /\ \A t \in Threads : pc[t] \notin {"put_check", "put_cb"})
    /\ [][\A t \in Threads : InPut(t) =>
            \A u \in Threads \ {t} :
                /\ pc'[u] = pc[u] /\ ret'[u] = ret[u] /\ el'[u] = el[u]
                /\ ok'[u] = ok[u] /\ key'[u] = key[u]]_vars

\* a Put is between the removal of the victim and the observer call while
\* another thread, inside Get, waits for the exclusive lock
C13_Witness ==
    \E t, u \in Threads :
        /\ pc[t] = "put_cb" /\ onEvict # None
        /\ pc[u] = "get_lock" /\ el[u] = tail[t]

\* C14: when the element a Get looked up has been evicted before the
\* promotion step, that step changes neither the list, the index nor any
\* element, Get goes on to its return with the element it holds intact, and
\* the index/list correspondence and the capacity bound hold afterwards.
C14_RaceTolerated ==
    /\ [][\A t \in Threads :
            (pc[t] = "get_move" /\ Moved(t) /\ ~elem[el[t]].lst) =>
                /\ list' = list /\ idx' = idx /\ elem' = elem
                /\ pc'[t] = "get_unlock"]_vars
    /\ [](\A t \in Threads :
            pc[t] \in {"get_lock", "get_move", "get_unlock", "get_rlock", "get_read"} =>
                /\ el[t] # None
                /\ elem[el[t]].key = key[t]
                /\ elem[el[t]].val # None)
    /\ [](\A t \in Threads :
            (pc[t] \in {"get_unlock", "get_rlock", "get_read", "get_ret"}
                /\ el[t] # None /\ ~elem[el[t]].lst) =>
                /\ \A i \in 1 .. Len(list) : list[i] # el[t]
                /\ idx[key[t]] # el[t]
                /\ (mu.w = None \/ mu.w = t) =>
                      /\ ListLen(list) <= cap
                      /\ \A k \in Keys : idx[k] # None <=> k \in KeysIn(list, elem)
                      /\ Cardinality(KeysIn(list, elem)) = Len(list))

\* the promotion step of a Get has run on an element that a Put evicted from
\* a full cache after the lookup
C14_Witness ==
    \E t \in Threads :
        /\ pc[t] = "get_unlock" /\ ok[t] /\ ~elem[el[t]].lst
        /\ ListLen(list) = cap /\ cap = MaxCap /\ idx[key[t]] = None

\* C15: a thread inside a call either can take its next step or waits inside
\* Get for the lock, and then another thread is inside a call and does not
\* wait; a call never dereferences a nil element; when no call is in progress
\* the lock is free; and under fair scheduling every call that has started
\* returns.
Waits(t) ==
    \/ pc[t] = "get_lock" /\ t \in wq /\ ~CanLock
    \/ pc[t] = "get_rlock" /\ (~CanRLock \/ ~NoWriterWaits)

C15_Progress ==
    /\ [](\A t \in Threads :
            /\ (pc[t] # "idle" /\ ~Waits(t)) => ENABLED Continue(t)
            /\ Waits(t) => \E u \in Threads \ {t} : pc[u] # "idle" /\ ~Waits(u)
            /\ pc[t] \in {"get_move", "get_read"} => el[t] # None
            /\ pc[t] = "put_cb" => tail[t] # None)
    /\ []((\A t \in Threads : pc[t] = "idle") => CanLock)
    /\ \A t \in Threads : (pc[t] # "idle") ~> (pc[t] = "idle")

\* a Get waits for the shared lock of its read while a Put of another thread
\* is about to call the observer
C15_Witness ==
    \E t, u \in Threads :
        /\ pc[t] = "get_rlock" /\ Waits(t)
        /\ pc[u] = "put_cb" /\ onEvict # None

\* C16: when the observer of an evicting Put is about to call a method of
\* the same cache, the Put's thread holds the exclusive lock, so neither the
\* shared nor the exclusive lock can be acquired by the observer; from then
\* on no thread takes a step: the Put never returns, and every other thread
\* is idle (its next call would wait for the lock) or waits inside Get.
C16_ReentrantDeadlock ==
    /\ [](\A t \in Threads : pc[t] = "cb_call" =>
              /\ mu.w = t
              /\ ~ENABLED ObserverRLock(t)
              /\ ~ENABLED ObserverLock(t)
              /\ \A u \in Threads \ {t} :
                    /\ pc[u] \in {"idle", "get_lock", "get_rlock"}
                    /\ ~ENABLED ReentStep(u))
    /\ [][\A t \in Threads : pc[t] # "cb_call"]_vars

\* the observer of a Put is about to call back into the cache while another
\* thread waits inside Get for the exclusive lock
C16_Witness ==
    \E t, u \in Threads :
        /\ pc[t] = "cb_call" /\ cbLog # <<>>
        /\ pc[u] = "get_lock"

\* C17: at every return, some sequential execution of the calls made so far,
\* in an order that respects which call returned before which began, gives
\* every call the result it returned (Get's value and found flag, the
\* observer calls of Put); and when no call is in progress one of these
\* executions ends with the resident keys, values, recency order and observer
\* of the cache.
ConcSeq == [i \in 1 .. Len(list) |-> <<elem[list[i]].key, elem[list[i]].val>>]

C17_Linearizable ==
    /\ lin.cfgs # {}
    /\ (cache = "ok" /\ Quiet /\ \A t \in Threads : pc[t] = "idle") =>
          \E c \in lin.cfgs : c.seq = ConcSeq /\ c.obs = onEvict

\* C18: while no thread holds the exclusive lock the list holds
\* min(cap, number of distinct keys ever Put) elements, and that is the value
\* Len returns; the value Len reads is never smaller than a value Len has
\* returned before; once the list has held cap elements with the lock free,
\* it holds cap elements whenever the lock is free.
Min(a, b) == IF a <= b THEN a ELSE b

C18_LenSaturates ==
    /\ []((cache = "ok" /\ mu.w = None) =>
            ListLen(list) = Min(cap, Cardinality(everPut)))
    /\ [](\A t \in Threads : pc[t] = "len_ret" =>
            /\ ret[t] = <<Min(cap, Cardinality(everPut))>>
            /\ ret[t][1] >= lastLen)
    /\ [][\A t \in Threads : (pc[t] = "len_read" /\ Moved(t)) =>
            ret'[t][1] >= lastLen]_vars
    /\ [][everPut \subseteq everPut' /\ lastLen' >= lastLen]_vars
    /\ []((cache = "ok" /\ mu.w = None /\ lastLen = cap) => ListLen(list) = cap)
    /\ []((cache = "ok" /\ mu.w = None /\ ListLen(list) = cap) =>
            []((mu.w = None) => ListLen(list) = cap))

\* Len is about to return the capacity 2 for the second time, after three
\* distinct keys have been Put
C18_Witness ==
    \E t \in Threads :
        /\ pc[t] = "len_ret" /\ ret[t] = <<MaxCap>> /\ lastLen = MaxCap
        /\ Cardinality(everPut) = MaxCap + 1

\* C19: when a Put is about to return, its key is in the index, the key's
\* element is the front of the list and stores the Put's value, for every
\* capacity; and a Get whose element is still linked when it returns (no Put
\* evicted it meanwhile) returns the value of the key's last Put and TRUE.
C19_PutStays ==
    \A t \in Threads :
        /\ pc[t] = "put_ret" =>
              /\ idx[key[t]] = el[t]
              /\ Front(list) = el[t]
              /\ elem[el[t]] = [key |-> key[t], val |-> val[t], lst |-> TRUE]
              /\ abs[key[t]] = val[t]
              /\ tail[t] # el[t]
        /\ (pc[t] = "get_ret" /\ el[t] # None /\ elem[el[t]].lst) =>
              /\ ret[t] = <<abs[key[t]], TRUE>>
              /\ idx[key[t]] = el[t]

\* a Put into a full cache of capacity 1 has evicted the other key and kept its own
C19_Witness ==
    \E t \in Threads :
        /\ pc[t] = "put_ret" /\ cap = 1 /\ tail[t] # None
        /\ list = <<el[t]>> /\ elem[tail[t]].key # key[t]

\* C20: the list, the index, the entries of linked elements and the observer
\* change only in a step of the thread that holds the exclusive lock; a
\* thread at a position that reads them holds the shared or the exclusive
\* lock; a thread at a position that unlocks holds the lock it releases; an
\* idle thread holds no lock; writer and readers exclude each other.
C20_LockDiscipline ==
    /\ [](\A t \in Threads :
            /\ pc[t] \in {"get_lookup", "get_read", "get_ret", "len_read", "len_ret"} =>
                  (t \in mu.r /\ mu.w = None)
            /\ pc[t] \in {"get_move", "get_unlock", "put_lookup", "put_check", "put_cb",
                          "put_ret", "set_assign", "set_ret"} =>
                  (mu.w = t /\ mu.r = {})
            /\ pc[t] \in {"idle", "get_lock", "get_rlock"} =>
                  (t \notin mu.r /\ mu.w # t))
    /\ [](mu.w \in Threads \cup {None} /\ mu.r \subseteq Threads)
    /\ [][(cache = "ok" /\ (list' # list \/ idx' # idx \/ onEvict' # onEvict
            \/ \E i \in 1 .. Len(list) : elem'[list[i]] # elem[list[i]])) =>
            \E t \in Threads : mu.w = t /\ Moved(t)]_vars
    /\ [][\A t \in Threads :
            /\ (t \in mu.r /\ t \notin mu'.r) =>
                  (Moved(t) /\ pc[t] \in {"get_lookup", "get_ret", "len_ret"})
            /\ (mu.w = t /\ mu'.w # t) =>
                  (Moved(t) /\ mu'.w = None /\ pc[t] \in {"get_unlock", "put_ret", "set_ret"})
            /\ (pc[t] \in {"get_ret", "len_ret"} /\ Moved(t)) => t \in mu.r]_vars

\* a Get holds the shared lock again for its read, after its promotion, while
\* another thread reads under the shared lock too
C20_Witness ==
    \E t, u \in Threads :
        /\ t # u /\ pc[t] = "get_read" /\ pc[u] = "len_read"
        /\ mu.r = {t, u} /\ ListLen(list) = cap

====
